---------------------------- MODULE Spec2Model ----------------------------
(***************************************************************************)
(* Model of the dynamic-agents execution core:                             *)
(*   - ExecutionEngine (core/execution.py): the execution record state     *)
(*     machine driven by run_agent / run_team / run_workflow;              *)
(*   - EventRouter (core/events.py): handle_event;                         *)
(*   - EventWorker (worker.py): the Redis-stream consumer with its         *)
(*     dead-letter path.                                                   *)
(* Redis streams / consumer groups and the SQL session are the environment:*)
(* every call into them either succeeds or raises.                         *)
(***************************************************************************)
EXTENDS Naturals, Integers, Sequences, FiniteSets, TLC

\* ------------------------------------------------------------------ bounds
MaxCalls == 2      \* run operations started by a direct caller
MaxFaults == 1     \* environment faults injected in one behaviour
MaxMsgs == 2       \* requests published to the stream
MaxRules == 2      \* routing rules registered with the router
MaxPriority == 1   \* routing rule priorities are 0 .. MaxPriority
MaxOps == 2        \* calls made to the routing-config manager

\* ------------------------------------------------------------------ values
None == <<>>
Some(x) == <<x>>

\* Python values: those held by an event's metadata / payload maps, and
\* those a runnable returns
Uuid(x) == [t |-> "uuid", v |-> x]
Str(x) == [t |-> "str", v |-> x]
NoValue == [t |-> "none", v |-> ""]
MapOf(m) == [t |-> "map", v |-> m]

\* an empty dict
NoMap == [k \in {} |-> NoValue]

\* dict.get(key)
Get(map, key) == IF key \in DOMAIN map THEN map[key] ELSE NoValue

\* Python truthiness of such a value: None, "", {} and False are false
Truthy(value) ==
    CASE value.t = "none" -> FALSE
      [] value.t = "str" -> value.v # ""
      [] value.t = "map" -> DOMAIN value.v # {}
      [] value.t = "bool" -> value.v
      [] OTHER -> TRUE

\* a or b
Or(a, b) == IF Truthy(a) THEN a ELSE b


Workers == {"w1"}
Callers == {"c1"}
Threads == Workers \cup Callers

AgentIds == {"A1", "A2"}

\* ExecutionTargetType
TargetTypes == {"agent", "team", "workflow"}

TargetIds(kind) ==
    CASE kind = "agent" -> AgentIds
      [] kind = "team" -> {"T1"}
      [] kind = "workflow" -> {"F1"}

\* Exceptions are values [cls, msg]; str(exc) is the message.
Exc(cls, msg) == [cls |-> cls, msg |-> msg]
StrExc(exc) == exc.msg

DbError == Exc("SQLAlchemyError", "database unavailable")
ResolverErrors == {Exc("AgentNotFoundError", "target not found")}
RunnableErrors == {Exc("RuntimeError", "model call failed")}

\* What a call of a runnable's operation gives: a value, or an exception
Returns(raw) == [ok |-> TRUE, raw |-> raw, exc |-> DbError]
Raises(exc) == [ok |-> FALSE, raw |-> NoValue, exc |-> exc]

\* RunnableAgent: what arun returns, and what arun_stream returns (None when
\* the runnable has no such attribute): an async iterator that yields the
\* chunks and then ends or raises, or an awaitable of one value
Runnables ==
    { [arun |-> Returns(Str("done")), arun_stream |-> None] } \cup
    { [arun |-> Raises(e), arun_stream |-> None] : e \in RunnableErrors } \cup
    { [arun |-> Returns(Str("done")), arun_stream |-> st] :
        st \in { Some([aiter |-> TRUE, chunks |-> <<Str("a"), Str("last")>>,
                       end |-> Returns(NoValue)]),
                 Some([aiter |-> TRUE, chunks |-> <<>>, end |-> Returns(NoValue)]),
                 Some([aiter |-> FALSE, chunks |-> <<>>, end |-> Returns(Str("last"))]) } \cup
               { Some([aiter |-> TRUE, chunks |-> <<Str("a")>>, end |-> Raises(e)]) :
                   e \in RunnableErrors } }
NoRunnable == [arun |-> Returns(NoValue), arun_stream |-> None]

VARIABLES
    records,       \* executions table: id -> row
    nextId,        \* ids handed out so far
    factories,     \* the factories the engine was constructed with
    call,          \* per thread: the run operation in progress
    callNo,        \* per thread: run operations started (history)
    made,          \* history: [rid, by, no] for every row ever inserted
    faults,        \* environment faults injected so far
    stream,        \* the request stream: entry id -> payload (dict[bytes, bytes])
    lastDelivered, \* the consumer group's last-delivered id
    pel,           \* the group's pending entries: delivered, not acknowledged
    dlq,           \* the "<stream>:dlq" stream
    wk,            \* per worker: position in run() / _process_entries
    hist,          \* history: per entry id, what the workers did with it
    responses,     \* history: AgentResponseEvents returned by handle_event
    batches,       \* history: the batches xreadgroup returned
    stop,          \* per worker: _stop_event
    rules,         \* EventRouter._routing_rules, in registration order
    routed,        \* history: the last call of route, with its outcome
    mgr,           \* RouterManager: _config, _router, _last_reload_at, _lock, repository
    ops,           \* per task: the RouterManager call in progress
    normalized     \* history: the last raw output normalized, with the results

engineVars == <<records, nextId, factories, call, callNo, made, faults>>
workerVars == <<stream, lastDelivered, pel, dlq, wk, hist, responses, batches, stop>>
routerVars == <<rules, routed>>
\* the state of the service objects that the engine and the worker do not touch
managerVars == <<mgr, ops>>
serviceVars == <<routerVars, managerVars, normalized>>
vars == <<records, nextId, factories, call, callNo, made, faults,
          stream, lastDelivered, pel, dlq, wk, hist, responses, batches, stop,
          rules, routed, mgr, ops, normalized>>

\* ------------------------------------------------------------ engine state
NoCall ==
    [pc |-> "idle", kind |-> "agent", target |-> "A1", input |-> "", rid |-> 0,
     error |-> None, output |-> None, raised |-> None, exc |-> None,
     result |-> None, runnable |-> NoRunnable, stream |-> FALSE]

\* _run_target's locals before the try block
DefaultOutput == [content |-> NoValue, structured_data |-> NoValue, metadata |-> NoMap]

\* AgentRunOutput
AgentRunOutput(content, structured_data, metadata, tokens) ==
    [t |-> "output",
     v |-> [content |-> content, structured_data |-> structured_data,
            metadata |-> metadata, tokens |-> tokens]]

\* str(value) of a value that is no string, map or None
PyStr(value) ==
    CASE value.t = "bool" -> IF value.v THEN "True" ELSE "False"
      [] OTHER -> "<object>"

\* (mutation) an AgentRunOutput is not recognised and is stringified
FromValue_NoShortcut(value) ==
    CASE value.t = "str" -> AgentRunOutput(value, NoValue, MapOf(NoMap), NoValue)
      [] value.t = "map" ->
            AgentRunOutput(Or(Get(value.v, "content"), Get(value.v, "text")),
                           Get(value.v, "structured_data"),
                           Or(Get(value.v, "metadata"), MapOf(NoMap)),
                           Get(value.v, "tokens"))
      [] value.t = "none" -> AgentRunOutput(NoValue, NoValue, MapOf(NoMap), NoValue)
      [] OTHER -> AgentRunOutput(Str(PyStr(value)), NoValue, MapOf(NoMap), NoValue)

\* AgentRunOutput.from_value
FromValue(value) ==
    CASE value.t = "output" -> value
      [] value.t = "str" -> AgentRunOutput(value, NoValue, MapOf(NoMap), NoValue)
      [] value.t = "map" ->
            AgentRunOutput(Or(Get(value.v, "content"), Get(value.v, "text")),
                           Get(value.v, "structured_data"),
                           Or(Get(value.v, "metadata"), MapOf(NoMap)),
                           Get(value.v, "tokens"))
      [] value.t = "none" -> AgentRunOutput(NoValue, NoValue, MapOf(NoMap), NoValue)
      [] OTHER -> AgentRunOutput(Str(PyStr(value)), NoValue, MapOf(NoMap), NoValue)

\* ExecutionEngine._normalize_output: the payload and the tokens
NormalizeOutput(raw) ==
    LET output == FromValue(raw).v
    IN  <<[content |-> output.content,
           structured_data |-> output.structured_data,
           metadata |-> Or(output.metadata, MapOf(NoMap)).v],
          output.tokens>>

NewRecord(kind, target, input) ==
    [target_type |-> kind,
     input_payload |-> [content |-> input],
     status |-> "pending",
     agent_id |-> IF kind = "agent" THEN Some(target) ELSE None,
     team_id |-> IF kind = "team" THEN Some(target) ELSE None,
     workflow_id |-> IF kind = "workflow" THEN Some(target) ELSE None,
     output_payload |-> None,
     error_message |-> None,
     duration_ms |-> None,
     started_at |-> None,
     finished_at |-> None]

MarkedRunning(r) == [r EXCEPT !.status = "running", !.started_at = Some("t")]

UpdatedSuccess(r, output) ==
    [r EXCEPT !.status = "completed", !.output_payload = Some(output),
              !.duration_ms = Some("d"), !.finished_at = Some("t"),
              !.error_message = None]

\* (mutation) the failure path writes the reserved CANCELLED status
UpdatedFailure_Cancelled(r, error) ==
    [r EXCEPT !.status = "cancelled", !.error_message = Some(error),
              !.duration_ms = Some("d"), !.finished_at = Some("t")]

UpdatedFailure(r, error) ==
    [r EXCEPT !.status = "failed", !.error_message = Some(error),
              !.duration_ms = Some("d"), !.finished_at = Some("t")]

Fault == faults < MaxFaults /\ faults' = faults + 1
NoFault == faults' = faults

\* (mutation) the exception is swallowed and the run goes on
Raise_Swallowed(t, exc) == call' = [call EXCEPT ![t].pc = "resolve"]

Raise(t, exc) == call' = [call EXCEPT ![t].pc = "raised", ![t].exc = Some(exc)]

\* The `stream` argument of the run operation.  Nothing reads it before
\* the resolver has returned, where the model draws it; the requests on the
\* stream carry no metadata, so run_from_event passes stream=False.
StreamFlags(t) == IF t \in Workers THEN {FALSE} ELSE BOOLEAN

\* run_agent / run_team / run_workflow up to the call of _run_target
BeginRun(t, kind, target, input) ==
    /\ callNo' = [callNo EXCEPT ![t] = @ + 1]
    /\ IF kind # "agent" /\ kind \notin factories
       THEN call' = [call EXCEPT ![t] =
                [NoCall EXCEPT !.pc = "raised", !.kind = kind, !.target = target,
                    !.input = input, !.exc = Some(Exc("ValueError", "factory is not configured"))]]
       ELSE call' = [call EXCEPT ![t] =
                [NoCall EXCEPT !.pc = "create", !.kind = kind, !.target = target,
                    !.input = input]]

\* _create_execution_record
CreateExecutionRecord(t) ==
    /\ call[t].pc = "create"
    /\ \/ /\ NoFault
          /\ nextId' = nextId + 1
          /\ records' = (nextId + 1 :> NewRecord(call[t].kind, call[t].target, call[t].input)) @@ records
          /\ made' = made \cup {[rid |-> nextId + 1, by |-> t, no |-> callNo[t]]}
          /\ call' = [call EXCEPT ![t].pc = "mark", ![t].rid = nextId + 1]
       \/ /\ Fault
          /\ Raise(t, DbError)
          /\ UNCHANGED <<records, nextId, made>>
    /\ UNCHANGED <<factories, callNo>>

\* _mark_execution_running
MarkExecutionRunning(t) ==
    /\ call[t].pc = "mark"
    /\ \/ /\ NoFault
          /\ call' = [call EXCEPT ![t].pc = "resolve"]
          /\ IF call[t].rid \in DOMAIN records
             THEN records' = [records EXCEPT ![call[t].rid] = MarkedRunning(@)]
             ELSE UNCHANGED records
       \/ /\ Fault
          /\ Raise(t, DbError)
          /\ UNCHANGED records
    /\ UNCHANGED <<nextId, factories, callNo, made>>

\* resolver(target_id) inside the try block
Resolve(t) ==
    /\ call[t].pc = "resolve"
    /\ \/ \E runnable \in Runnables, stream_flag \in StreamFlags(t) :
            call' = [call EXCEPT ![t].pc = "invoke", ![t].runnable = runnable,
                                 ![t].stream = stream_flag]
       \/ \E e \in ResolverErrors :
            call' = [call EXCEPT ![t].pc = "update", ![t].raised = Some(e),
                                 ![t].error = Some(StrExc(e))]
    /\ UNCHANGED <<records, nextId, factories, callNo, made, faults>>

\* `async for chunk in stream_result: final_chunk = chunk`, from chunk i on
RECURSIVE Drain(_, _, _)
Drain(chunks, i, final_chunk) ==
    IF i > Len(chunks) THEN final_chunk ELSE Drain(chunks, i + 1, chunks[i])

\* _run_runnable_once, before _normalize_output
RunRunnableOnce(agent) == agent.arun

\* (mutation) the first chunk is kept
RunRunnableStream_FirstChunk(agent) ==
    IF agent.arun_stream = None
    THEN RunRunnableOnce(agent)
    ELSE LET stream_result == agent.arun_stream[1]
         IN  IF ~stream_result.aiter THEN stream_result.end
             ELSE IF ~stream_result.end.ok THEN stream_result.end
             ELSE Returns(IF stream_result.chunks = <<>> THEN NoValue
                          ELSE stream_result.chunks[1])

\* _run_runnable_stream, before _normalize_output
RunRunnableStream(agent) ==
    IF agent.arun_stream = None
    THEN RunRunnableOnce(agent)
    ELSE LET stream_result == agent.arun_stream[1]
         IN  IF ~stream_result.aiter THEN stream_result.end
             ELSE IF ~stream_result.end.ok THEN stream_result.end
             ELSE Returns(Drain(stream_result.chunks, 1, NoValue))

\* _run_runnable_stream / _run_runnable_once inside the try block; the
\* runnable is a local of the try block
Invoke(t) ==
    /\ call[t].pc = "invoke"
    /\ LET outcome == IF call[t].stream THEN RunRunnableStream(call[t].runnable)
                      ELSE RunRunnableOnce(call[t].runnable)
           after == [call[t] EXCEPT !.pc = "update", !.runnable = NoRunnable,
                                    !.stream = FALSE]
       IN  IF outcome.ok
           THEN call' = [call EXCEPT ![t] =
                    [after EXCEPT !.output = Some(NormalizeOutput(outcome.raw)[1])]]
           ELSE call' = [call EXCEPT ![t] =
                    [after EXCEPT !.raised = Some(outcome.exc),
                                  !.error = Some(StrExc(outcome.exc))]]
    /\ UNCHANGED <<records, nextId, factories, callNo, made, faults>>

\* (mutation) the failure path stores the default output as well
TerminalUpdate_OutputOnFailure(r, c) ==
    IF c.error = None
    THEN UpdatedSuccess(r, IF c.output = None THEN DefaultOutput ELSE c.output[1])
    ELSE [UpdatedFailure(r, c.error[1]) EXCEPT !.output_payload = Some(DefaultOutput)]

\* the row written by _update_execution_success / _update_execution_failure
TerminalUpdate(r, c) ==
    IF c.error = None
    THEN UpdatedSuccess(r, IF c.output = None THEN DefaultOutput ELSE c.output[1])
    ELSE UpdatedFailure(r, c.error[1])

\* if error_message is None: _update_execution_success else _update_execution_failure
UpdateExecution(t) ==
    /\ call[t].pc = "update"
    /\ \/ /\ NoFault
          /\ call' = [call EXCEPT ![t].pc = "fetch"]
          /\ IF call[t].rid \in DOMAIN records
             THEN records' = [records EXCEPT ![call[t].rid] = TerminalUpdate(@, call[t])]
             ELSE UNCHANGED records
       \/ /\ Fault
          /\ Raise(t, DbError)
          /\ UNCHANGED records
    /\ UNCHANGED <<nextId, factories, callNo, made>>

\* _fetch_execution_result
FetchExecutionResult(t) ==
    /\ call[t].pc = "fetch"
    /\ \/ /\ NoFault
          /\ IF call[t].rid \in DOMAIN records
             THEN call' = [call EXCEPT ![t].pc = "returned",
                                       ![t].result = Some(records[call[t].rid])]
             ELSE Raise(t, Exc("ValueError", "Execution not found"))
       \/ /\ Fault
          /\ Raise(t, DbError)
    /\ UNCHANGED <<records, nextId, factories, callNo, made>>

\* a row removed by another session while a run is in progress
\* (executions are deleted with their agent / team / workflow)
DeleteRecord(id) ==
    /\ id \in DOMAIN records
    /\ \E t \in Threads : call[t].rid = id /\ call[t].pc \notin {"returned", "raised"}
    /\ Fault
    /\ records' = [i \in DOMAIN records \ {id} |-> records[i]]
    /\ UNCHANGED <<nextId, factories, call, callNo, made>>

EngineStep(t) ==
    \/ CreateExecutionRecord(t)
    \/ MarkExecutionRunning(t)
    \/ Resolve(t)
    \/ Invoke(t)
    \/ UpdateExecution(t)
    \/ FetchExecutionResult(t)

\* ----------------------------------------------------------- direct callers
\* a caller of the engine (the HTTP layer) starts a run operation
StartRun(c, kind, target, input) ==
    /\ call[c].pc \in {"idle", "returned", "raised"}
    /\ callNo[c] < MaxCalls
    /\ BeginRun(c, kind, target, input)
    /\ UNCHANGED <<records, nextId, factories, made, faults>>
    /\ UNCHANGED workerVars
    /\ UNCHANGED serviceVars

\* ------------------------------------------------------------ stream values
\* A bytes value: its text when it is valid UTF-8.
Bytes(text) == [raw |-> text, utf8 |-> TRUE]

\* Parsed JSON values.
JStr(text) == [t |-> "str", s |-> text, f |-> <<>>]
JObj(fields) == [t |-> "obj", s |-> "", f |-> fields]

BodyA1 == "{\"agent_id\": \"A1\", \"payload\": {\"content\": \"hi\"}}"
BodyNoAgent == "{\"payload\": {\"content\": \"hi\"}}"
BodyList == "[1, 2]"
BodyBroken == "{oops"

\* strings whose first non-blank character is one of [ { "
JsonLooking == {BodyA1, BodyNoAgent, BodyList, BodyBroken}

\* json.loads succeeds on these
JsonValid == {BodyA1, BodyNoAgent, BodyList}

JsonLoads(text) ==
    CASE text = BodyA1 ->
            JObj(("agent_id" :> JStr("A1")) @@
                 ("payload" :> JObj("content" :> JStr("hi"))))
      [] text = BodyNoAgent -> JObj("payload" :> JObj("content" :> JStr("hi")))
      [] text = BodyList -> [t |-> "list", s |-> "", f |-> <<>>]

\* json.dumps(decoded, default=str): the JSON text of a str -> str mapping
JsonDumps(fields) == [json |-> fields]

\* the payloads a publisher may put on the stream
Payloads ==
    { ("event" :> Bytes(BodyA1)),
      ("data" :> Bytes(BodyNoAgent)),
      ("event" :> Bytes(BodyBroken)),
      ("event" :> [raw |-> "<ff fe>", utf8 |-> FALSE]) }

\* EventWorker._decode_fields: raises UnicodeDecodeError on invalid UTF-8
CanDecode(payload) == \A k \in DOMAIN payload : payload[k].utf8
DecodeFields(payload) == [k \in DOMAIN payload |-> payload[k].raw]
DecodeError == Exc("UnicodeDecodeError", "invalid start byte")

\* EventWorker._maybe_load_json
MaybeLoadJson(value) ==
    IF value.t = "str" /\ value.s \in JsonLooking /\ value.s \in JsonValid
    THEN JsonLoads(value.s)
    ELSE value

\* the candidate _deserialize_event picks from the decoded fields
RawCandidate(decoded) ==
    IF "event" \in DOMAIN decoded THEN MaybeLoadJson(JStr(decoded["event"]))
    ELSE IF "data" \in DOMAIN decoded THEN MaybeLoadJson(JStr(decoded["data"]))
    ELSE IF Cardinality(DOMAIN decoded) = 1
         THEN MaybeLoadJson(JStr(decoded[CHOOSE k \in DOMAIN decoded : TRUE]))
    ELSE JObj([k \in DOMAIN decoded |-> JStr(decoded[k])])

Normalized(mapping) == [k \in DOMAIN mapping |-> MaybeLoadJson(mapping[k])]

\* AgentRequestEvent.model_validate: agent_id is required and must be a UUID,
\* payload and metadata must be mappings
ValidEvent(n) ==
    /\ "agent_id" \in DOMAIN n
    /\ n["agent_id"].t = "str"
    /\ n["agent_id"].s \in AgentIds
    /\ "payload" \in DOMAIN n => n["payload"].t = "obj"
    /\ "metadata" \in DOMAIN n => n["metadata"].t = "obj"

\* ExecutionEngine._extract_input_text
ExtractInputText(payload) ==
    LET IsStr(k) == k \in DOMAIN payload /\ payload[k].t = "str"
    IN  IF IsStr("content") THEN payload["content"].s
        ELSE IF IsStr("input_text") THEN payload["input_text"].s
        ELSE IF IsStr("text") THEN payload["text"].s
        ELSE IF IsStr("message") THEN payload["message"].s
        ELSE ""

NoEvent == [agent_id |-> "", content |-> ""]

EventOf(n) ==
    [agent_id |-> n["agent_id"].s,
     content |-> IF "payload" \in DOMAIN n THEN ExtractInputText(n["payload"].f) ELSE ""]

\* EventWorker._deserialize_event: the event, or the exception it raises
DeserializeEvent(payload) ==
    IF ~CanDecode(payload)
    THEN [ok |-> FALSE, event |-> NoEvent, exc |-> DecodeError]
    ELSE LET raw == RawCandidate(DecodeFields(payload))
         IN  IF raw.t # "obj"
             THEN [ok |-> FALSE, event |-> NoEvent,
                   exc |-> Exc("ValueError", "Event payload must decode to a mapping")]
             ELSE IF ~ValidEvent(Normalized(raw.f))
             THEN [ok |-> FALSE, event |-> NoEvent,
                   exc |-> Exc("ValidationError", "validation error for AgentRequestEvent")]
             ELSE [ok |-> TRUE, event |-> EventOf(Normalized(raw.f)), exc |-> DecodeError]

\* (mutation) the target is not taken from the event
ExtractExplicitTarget_Fixed(event) == <<"agent", "A2">>

\* EventRouter._extract_explicit_target: <<kind, id>>, or None.  An event's
\* agent_id is "" when the event carries none (a validated event always
\* carries one, and a UUID is always true).
ExtractExplicitTarget(event) ==
    IF event.agent_id # ""
    THEN <<"agent", event.agent_id>>
    ELSE LET team_id == Or(Get(event.metadata, "team_id"), Get(event.payload, "team_id"))
             workflow_id == Or(Get(event.metadata, "workflow_id"),
                               Get(event.payload, "workflow_id"))
             agent_id == Or(Get(event.metadata, "agent_id"), Get(event.payload, "agent_id"))
         IN  IF team_id.t = "uuid" THEN <<"team", team_id.v>>
             ELSE IF workflow_id.t = "uuid" THEN <<"workflow", workflow_id.v>>
             ELSE IF agent_id.t = "uuid" THEN <<"agent", agent_id.v>>
             ELSE None

\* ExecutionEngine._maybe_uuid: Some(identifier), or None.  Identifiers
\* stand for UUIDs: a string of the model is UUID-formatted when it is the
\* text of one of them (UUID(stripped) raises ValueError on any other).
MaybeUuid(value) ==
    LET stripped == CASE value.v = " F1 " -> "F1" [] value.v = "  " -> "" [] OTHER -> value.v
    IN  IF value.t = "uuid" THEN Some(value.v)
        ELSE IF value.t = "str"
        THEN IF stripped = "" THEN None
             ELSE IF stripped \in {"A1", "A2", "T1", "F1", "U1"} THEN Some(stripped)
             ELSE None
        ELSE None

\* ExecutionEngine._resolve_event_target: <<kind, id>>, or None when it
\* raises ValueError
ResolveEventTarget(event) ==
    IF event.agent_id # ""
    THEN <<"agent", event.agent_id>>
    ELSE LET candidate(key) == Or(Get(event.metadata, key), Get(event.payload, key))
         IN  IF MaybeUuid(candidate("team_id")) # None
             THEN <<"team", MaybeUuid(candidate("team_id"))[1]>>
             ELSE IF MaybeUuid(candidate("workflow_id")) # None
             THEN <<"workflow", MaybeUuid(candidate("workflow_id"))[1]>>
             ELSE IF MaybeUuid(candidate("agent_id")) # None
             THEN <<"agent", MaybeUuid(candidate("agent_id"))[1]>>
             ELSE None

\* EventRouter._extract_source: the source string, or None
ExtractSource(event) ==
    LET source == Or(Get(event.metadata, "source"), Get(event.payload, "source"))
    IN  IF source.t = "str" /\ source.v # "" THEN Some(source.v) ELSE None

\* ------------------------------------------------------------ routing rules
\* Regular expressions, by the strings of the model they match:
\* re.search(pattern, value) is not None
Search(pattern, text) == pattern = ".*" \/ pattern = text

\* RoutingRule._match_pattern
MatchPattern(pattern, value) == value.t = "str" /\ Search(pattern, value.v)

\* RoutingRule.matches: a pattern that is None or "" is not declared
Matches(rule, event) ==
    LET source_value == Or(Or(Get(event.metadata, "source"), Get(event.payload, "source")),
                           Str(""))
        content_value == Or(Or(Get(event.payload, "content"),
                               Get(event.payload, "input_text")), Str(""))
        user_value == Str(Or(Or(event.user_id, Get(event.metadata, "user_id")), Str("")).v)
    IN  /\ rule.source_pattern # "" => MatchPattern(rule.source_pattern, source_value)
        /\ rule.content_pattern # "" => MatchPattern(rule.content_pattern, content_value)
        /\ rule.user_pattern # "" => MatchPattern(rule.user_pattern, user_value)

\* (mutation) among equal priorities the rule registered last comes first
InsertByPriority_TiesReversed(order, i, rls) ==
    LET before == {k \in 1 .. Len(order) : rls[order[k]].priority > rls[i].priority}
        n == Cardinality(before)
    IN  SubSeq(order, 1, n) \o <<i>> \o SubSeq(order, n + 1, Len(order))

\* one step of the stable sort: rule i is put behind every rule already in
\* the order whose priority is at least its own
InsertByPriority(order, i, rls) ==
    LET before == {k \in 1 .. Len(order) : rls[order[k]].priority >= rls[i].priority}
        n == Cardinality(before)
    IN  SubSeq(order, 1, n) \o <<i>> \o SubSeq(order, n + 1, Len(order))

\* sorted(self._routing_rules, key=lambda rule: rule.priority, reverse=True),
\* as the sequence of the rules' positions in _routing_rules
RECURSIVE SortedUpTo(_, _)
SortedUpTo(rls, n) ==
    IF n = 0 THEN <<>> ELSE InsertByPriority(SortedUpTo(rls, n - 1), n, rls)

SortedByPriority(rls) == SortedUpTo(rls, Len(rls))

\* the outcome of route: the target (or the error), and what was consulted
Routed(target, rule, consulted, lookup) ==
    [ok |-> TRUE, target |-> target, rule |-> rule, consulted |-> consulted,
     lookup |-> lookup]
NotRouted(consulted, lookup) ==
    [ok |-> FALSE, target |-> None, rule |-> 0, consulted |-> consulted,
     lookup |-> lookup]

\* (mutation) the rules are tried before the explicit target
Route_RulesFirst(event, rls, fallback) ==
    LET order == SortedByPriority(rls)
        hits == {k \in 1 .. Len(order) : Matches(rls[order[k]], event)}
        first == CHOOSE k \in hits : \A h \in hits : k <= h
    IN  IF hits # {}
        THEN Routed(<<rls[order[first]].target_type, rls[order[first]].target_id>>,
                    order[first], first, FALSE)
        ELSE IF ExtractExplicitTarget(event) # None
        THEN Routed(ExtractExplicitTarget(event), 0, Len(order), FALSE)
        ELSE NotRouted(Len(order), FALSE)

\* EventRouter.route; fallback is what get_default_route returns when asked
Route(event, rls, fallback) ==
    IF ExtractExplicitTarget(event) # None
    THEN Routed(ExtractExplicitTarget(event), 0, 0, FALSE)
    ELSE LET order == SortedByPriority(rls)
             hits == {k \in 1 .. Len(order) : Matches(rls[order[k]], event)}
             first == CHOOSE k \in hits : \A h \in hits : k <= h
         IN  IF hits # {}
             THEN Routed(<<rls[order[first]].target_type, rls[order[first]].target_id>>,
                         order[first], first, FALSE)
             ELSE IF ExtractSource(event) = None
             THEN NotRouted(Len(order), FALSE)
             ELSE IF fallback # None
             THEN Routed(fallback, 0, Len(order), TRUE)
             ELSE NotRouted(Len(order), TRUE)

\* ------------------------------------------------------------------ worker
BatchSize == 8
StreamKey == "events:agent_requests"


\* EventWorker after _initialize
IdleWorker == [pc |-> "loop", batch |-> <<>>, idx |-> 0, exc |-> None, redis |-> "open"]

\* EventWorker._close, the finally clause of run()
Close(k) == [k EXCEPT !.redis = "closed"]

\* the entry id _process_entries is at
Current(w) == wk[w].batch[wk[w].idx]

\* history entries: what happened, in which worker, with which error text,
\* inside which run operation of that worker
Event(ev, w, err, no) == [ev |-> ev, w |-> w, err |-> err, no |-> no]
Log(m, ev, w, err, no) == hist' = [hist EXCEPT ![m] = Append(@, Event(ev, w, err, no))]

\* (mutation) the batch is taken up from its last message
FirstIndex_Last(batch) == Len(batch)

\* run()'s loop body hands the batch to _process_entries, which starts at
\* its first message
FirstIndex(batch) == 1

\* except branch of _deserialize_event in _process_entries: _handle_failure
OnDeserializeError(k, exc) == [k EXCEPT !.pc = "fail", !.exc = Some(exc)]

\* (mutation) a handler failure is acknowledged like a success
OnHandlerError_AckFirst(k, exc) == [k EXCEPT !.pc = "ack"]

\* except branch of handle_event in _process_entries: _handle_failure
OnHandlerError(k, exc) == [k EXCEPT !.pc = "fail", !.exc = Some(exc)]

\* else branch of handle_event in _process_entries: _ack
OnHandlerSuccess(k) == [k EXCEPT !.pc = "ack"]

\* _handle_failure after a successful xadd: _ack
OnDlqPublished(k) == [k EXCEPT !.pc = "ack"]

\* (mutation) the xadd failure is not caught
OnDlqPublishError_Raise(k) == [k EXCEPT !.pc = "crashed"]

\* _handle_failure when xadd raises: the failure is logged, then _ack
OnDlqPublishError(k) == [k EXCEPT !.pc = "ack"]

\* the loop of run(): request_shutdown was called, the loop ends, _close
LoopExit(w) ==
    /\ wk[w].pc = "loop"
    /\ stop[w]
    /\ wk' = [wk EXCEPT ![w] = Close([@ EXCEPT !.pc = "stopped"])]
    /\ UNCHANGED <<stream, lastDelivered, pel, dlq, hist, responses, batches, stop>>
    /\ UNCHANGED engineVars
    /\ UNCHANGED serviceVars

\* _read_batch, and the first statement of run()'s loop body
ReadBatch(w) ==
    /\ wk[w].pc = "loop"
    /\ ~stop[w]
    /\ \/ /\ NoFault
          /\ LET \* XREADGROUP ... COUNT n STREAMS key ">": the entries never
                 \* delivered to a consumer of the group, at most n of them
                 waiting == Len(stream) - lastDelivered
                 count == IF BatchSize < waiting THEN BatchSize ELSE waiting
                 got == [i \in 1 .. count |-> lastDelivered + i]
             IN  /\ lastDelivered' = lastDelivered + Len(got)
                 /\ pel' = pel \cup {got[i] : i \in 1 .. Len(got)}
                 /\ hist' = [m \in DOMAIN hist |->
                        IF \E i \in 1 .. Len(got) : got[i] = m
                        THEN Append(hist[m], Event("delivered", w, "", 0)) ELSE hist[m]]
                 /\ batches' = IF got = <<>> THEN batches ELSE batches \cup {got}
                 /\ wk' = IF got = <<>> THEN wk
                          ELSE [wk EXCEPT ![w] = [IdleWorker EXCEPT
                                    !.pc = "msg", !.batch = got, !.idx = FirstIndex(got)]]
       \/ /\ Fault
          /\ UNCHANGED <<lastDelivered, pel, hist, batches, wk>>
    /\ UNCHANGED <<stream, dlq, responses, stop>>
    /\ UNCHANGED <<records, nextId, factories, call, callNo, made>>
    /\ UNCHANGED serviceVars

\* _process_entries, one message: _deserialize_event, then the start of
\* handle_event (route, run_from_event, run_agent)
BeginMessage(w) ==
    /\ wk[w].pc = "msg"
    /\ LET m == Current(w)
           d == DeserializeEvent(stream[m])
       IN  IF d.ok
           THEN /\ BeginRun(w, ExtractExplicitTarget(d.event)[1],
                            ExtractExplicitTarget(d.event)[2], d.event.content)
                /\ wk' = [wk EXCEPT ![w].pc = "handle"]
                /\ Log(m, "handle_started", w, "", callNo[w] + 1)
           ELSE /\ wk' = [wk EXCEPT ![w] = OnDeserializeError(@, d.exc)]
                /\ Log(m, "deserialize_failed", w, StrExc(d.exc), 0)
                /\ UNCHANGED <<call, callNo>>
    /\ UNCHANGED <<stream, lastDelivered, pel, dlq, responses, batches, stop>>
    /\ UNCHANGED <<records, nextId, factories, made, faults>>
    /\ UNCHANGED serviceVars

\* run_from_event's AgentResponseEvent
ResponseEvent(m, w, result) ==
    [message |-> m, by |-> w, execution |-> result]

\* handle_event returned: the else branch of _process_entries
HandleReturned(w) ==
    /\ wk[w].pc = "handle"
    /\ call[w].pc = "returned"
    /\ responses' = responses \cup
            {ResponseEvent(Current(w), w, [rid |-> call[w].rid, row |-> call[w].result[1]])}
    /\ wk' = [wk EXCEPT ![w] = OnHandlerSuccess(@)]
    /\ call' = [call EXCEPT ![w] = NoCall]
    /\ Log(Current(w), "handle_ok", w, "", callNo[w])
    /\ UNCHANGED <<stream, lastDelivered, pel, dlq, batches, stop>>
    /\ UNCHANGED <<records, nextId, factories, callNo, made, faults>>
    /\ UNCHANGED serviceVars

\* handle_event raised: the except branch of _process_entries
HandleRaised(w) ==
    /\ wk[w].pc = "handle"
    /\ call[w].pc = "raised"
    /\ wk' = [wk EXCEPT ![w] = OnHandlerError(@, call[w].exc[1])]
    /\ call' = [call EXCEPT ![w] = NoCall]
    /\ Log(Current(w), "handle_failed", w, StrExc(call[w].exc[1]), callNo[w])
    /\ UNCHANGED <<stream, lastDelivered, pel, dlq, responses, batches, stop>>
    /\ UNCHANGED <<records, nextId, factories, callNo, made, faults>>
    /\ UNCHANGED serviceVars

\* (mutation) the entry carries the exception's class, not its text
DlqEntry_ClassName(m, payload, exc) ==
    [message_id |-> m, stream |-> StreamKey, error |-> exc.cls,
     payload |-> JsonDumps(DecodeFields(payload))]

\* the entry _handle_failure adds to the dead-letter stream
DlqEntry(m, payload, exc) ==
    [message_id |-> m, stream |-> StreamKey, error |-> StrExc(exc),
     payload |-> JsonDumps(DecodeFields(payload))]

\* _handle_failure up to its call of _ack
HandleFailure(w) ==
    /\ wk[w].pc = "fail"
    /\ LET m == Current(w)
       IN  IF ~CanDecode(stream[m])
           THEN \* _decode_fields raises outside the try: out of run()
                /\ wk' = [wk EXCEPT ![w] =
                            Close([@ EXCEPT !.pc = "crashed", !.exc = Some(DecodeError)])]
                /\ Log(m, "failure_raised", w, StrExc(DecodeError), 0)
                /\ UNCHANGED <<dlq, faults>>
           ELSE \/ /\ NoFault
                   /\ dlq' = Append(dlq, DlqEntry(m, stream[m], wk[w].exc[1]))
                   /\ wk' = [wk EXCEPT ![w] = OnDlqPublished(@)]
                   /\ Log(m, "dlq_ok", w, "", 0)
                \/ /\ Fault
                   /\ wk' = [wk EXCEPT ![w] = OnDlqPublishError(@)]
                   /\ Log(m, "dlq_failed", w, "", 0)
                   /\ UNCHANGED dlq
    /\ UNCHANGED <<stream, lastDelivered, pel, responses, batches, stop>>
    /\ UNCHANGED <<records, nextId, factories, call, callNo, made>>
    /\ UNCHANGED serviceVars

\* the worker's position after the acknowledgement of the current message
AfterAck(k) ==
    IF k.idx < Len(k.batch)
    THEN [k EXCEPT !.pc = "msg", !.idx = k.idx + 1, !.exc = None]
    ELSE IdleWorker

\* _ack: XACK, a failure is logged only
Ack(w) ==
    /\ wk[w].pc = "ack"
    /\ \/ /\ NoFault
          /\ pel' = pel \ {Current(w)}
          /\ Log(Current(w), "ack_ok", w, "", 0)
       \/ /\ Fault
          /\ Log(Current(w), "ack_failed", w, "", 0)
          /\ UNCHANGED pel
    /\ wk' = [wk EXCEPT ![w] = AfterAck(@)]
    /\ UNCHANGED <<stream, lastDelivered, dlq, responses, batches, stop>>
    /\ UNCHANGED <<records, nextId, factories, call, callNo, made>>
    /\ UNCHANGED serviceVars

\* request_shutdown (the signal handler)
RequestShutdown(w) ==
    /\ ~stop[w]
    /\ wk[w].pc \notin {"stopped", "crashed", "killed"}
    /\ stop' = [stop EXCEPT ![w] = TRUE]
    /\ UNCHANGED <<stream, lastDelivered, pel, dlq, wk, hist, responses, batches>>
    /\ UNCHANGED engineVars
    /\ UNCHANGED serviceVars

\* the worker process dies while it handles a batch (SIGKILL, the host
\* goes down)
Kill(w) ==
    /\ wk[w].pc \in {"msg", "handle", "fail", "ack"}
    /\ Fault
    /\ wk' = [wk EXCEPT ![w].pc = "killed"]
    /\ Log(Current(w), "killed", w, "", 0)
    /\ UNCHANGED <<stream, lastDelivered, pel, dlq, responses, batches, stop>>
    /\ UNCHANGED <<records, nextId, factories, call, callNo, made>>
    /\ UNCHANGED serviceVars

\* the process is started again (by its supervisor): main() builds a new
\* EventWorker; the consumer group already exists (BUSYGROUP is tolerated)
Restart(w) ==
    /\ wk[w].pc \in {"crashed", "killed"}
    /\ wk' = [wk EXCEPT ![w] = IdleWorker]
    /\ stop' = [stop EXCEPT ![w] = FALSE]
    /\ call' = [call EXCEPT ![w] = NoCall]
    /\ UNCHANGED <<stream, lastDelivered, pel, dlq, hist, responses, batches>>
    /\ UNCHANGED <<records, nextId, factories, callNo, made, faults>>
    /\ UNCHANGED serviceVars

\* a publisher adds a request to the stream (XADD)
Publish(payload) ==
    /\ Len(stream) < MaxMsgs
    /\ stream' = Append(stream, payload)
    /\ hist' = Append(hist, <<>>)
    /\ UNCHANGED <<lastDelivered, pel, dlq, wk, responses, batches, stop>>
    /\ UNCHANGED engineVars
    /\ UNCHANGED serviceVars

\* a step of the engine made by a worker inside handle_event
WorkerEngineStep(w) ==
    /\ wk[w].pc = "handle"
    /\ EngineStep(w)
    /\ UNCHANGED workerVars
    /\ UNCHANGED serviceVars

EngineInit ==
    /\ records = <<>>
    /\ nextId = 0
    /\ factories \in SUBSET {"team", "workflow"}
    /\ call = [t \in Threads |-> NoCall]
    /\ callNo = [t \in Threads |-> 0]
    /\ made = {}
    /\ faults = 0

WorkerInit ==
    /\ stream = <<>>
    /\ lastDelivered = 0
    /\ pel = {}
    /\ dlq = <<>>
    /\ wk = [w \in Workers |-> IdleWorker]
    /\ hist = <<>>
    /\ responses = {}
    /\ batches = {}
    /\ stop = [w \in Workers |-> FALSE]

\* ------------------------------------------- routing-config manager: values
Tasks == {"t1", "t2"}

\* a secret reference held by a litellm parameter
EnvRef == Str("os.environ/API_KEY")

\* ModelDeployment; the id sits under the litellm parameter `key`, or under
\* model_info "id" when key is "model_info"; no key, no id
ModelDeployment(model_name, key, id, api_key) ==
    [model_name |-> model_name,
     litellm_params |-> (IF key \in {"model_info", ""} THEN NoMap ELSE (key :> Str(id)))
                        @@ (IF api_key = NoValue THEN NoMap ELSE ("api_key" :> api_key)),
     model_info |-> IF key = "model_info" THEN ("id" :> Str(id)) ELSE NoMap]

GptD1 == ModelDeployment("gpt", "deployment_id", "d1", NoValue)
GptD2 == ModelDeployment("gpt", "model_info", "d2", NoValue)
ClaudeD1 == ModelDeployment("claude", "id", "d1", EnvRef)
GptPlain == ModelDeployment("gpt", "", "", NoValue)

NumRetries == 3
AllowedFails == 3
CooldownTime == 30
RedisPort == 6379

\* RouterConfig: the fields the class declares.  A dict of fallbacks is a
\* sequence of <<model name, targets>> pairs in insertion order.
RouterConfig(model_list, routing_strategy, fallbacks, default_fallbacks) ==
    [model_list |-> model_list,
     routing_strategy |-> routing_strategy,
     num_retries |-> NumRetries,
     fallbacks |-> fallbacks,
     default_fallbacks |-> default_fallbacks,
     context_window_fallbacks |-> <<>>,
     allowed_fails |-> AllowedFails,
     cooldown_time |-> CooldownTime,
     enable_pre_call_checks |-> TRUE,
     enable_tag_filtering |-> TRUE,
     redis_host |-> NoValue,
     redis_port |-> RedisPort,
     redis_password |-> NoValue,
     redis_url |-> NoValue]

RouterConfigs ==
    {RouterConfig(l, s, f, d) :
        l \in {<<>>, <<GptD1>>, <<GptD1, GptD2>>, <<GptD1, ClaudeD1>>, <<GptPlain>>},
        s \in {"usage-based-routing-v2", "simple-shuffle"},
        f \in {<<>>, << <<"gpt", <<"claude">> >> >>},
        d \in {<<>>, <<"backup">>}}

\* the configurations a manager is constructed with, and those it is
\* asked to reload
StartConfigs == {c \in RouterConfigs : c.fallbacks = <<>> /\ c.default_fallbacks = <<>>
                                        /\ c.routing_strategy = "usage-based-routing-v2"}
ReloadConfigs == {c \in RouterConfigs : c.fallbacks = <<>> /\ c.default_fallbacks = <<>>
                                         /\ Len(c.model_list) = 2}

\* RouterManager._matches_deployment_id
MatchesDeploymentId(deployment, deployment_id) ==
    \/ \E key \in {"deployment_id", "id"} :
          Get(deployment.litellm_params, key) = Str(deployment_id)
    \/ Get(deployment.model_info, "id") = Str(deployment_id)

\* remove_deployment: the deployment is dropped from the list
Dropped(deployment, model_name, deployment_id) ==
    /\ deployment.model_name = model_name
    /\ MatchesDeploymentId(deployment, deployment_id)

\* (mutation) the model name is not compared
Removed_AnyModel(model_list, model_name, deployment_id) ==
    \E i \in 1 .. Len(model_list) : MatchesDeploymentId(model_list[i], deployment_id)

\* remove_deployment: `removed`
Removed(model_list, model_name, deployment_id) ==
    \E i \in 1 .. Len(model_list) : Dropped(model_list[i], model_name, deployment_id)

\* _requires_full_rebuild: sensitive_fields
SensitiveFields ==
    <<"routing_strategy", "num_retries", "fallbacks", "default_fallbacks",
      "context_window_fallbacks", "allowed_fails", "cooldown_time",
      "enable_pre_call_checks", "enable_tag_filtering", "redis_host",
      "redis_port", "redis_password", "redis_url", "guardrails">>

\* getattr(config, field) on a field the class does not declare
AttributeError(field) ==
    Exc("AttributeError", "'RouterConfig' object has no attribute '" \o field \o "'")

\* RouterManager._requires_full_rebuild: any() stops at the first field
\* that differs; reading a field the config does not have raises
RequiresFullRebuild(current, new_config) ==
    LET decided == {i \in 1 .. Len(SensitiveFields) :
                       \/ SensitiveFields[i] \notin DOMAIN current
                       \/ current[SensitiveFields[i]] # new_config[SensitiveFields[i]]}
    IN  IF decided = {}
          THEN [raised |-> FALSE, value |-> FALSE, exc |-> None]
          ELSE LET i == CHOOSE i \in decided : \A j \in decided : i <= j
               IN  IF SensitiveFields[i] \in DOMAIN current
                     THEN [raised |-> FALSE, value |-> TRUE, exc |-> None]
                     ELSE [raised |-> TRUE, value |-> FALSE,
                           exc |-> Some(AttributeError(SensitiveFields[i]))]

\* RouterManager._format_fallbacks; `existing` is computed once, before
\* the loop over the deployments
FormatFallbacks(config) ==
    LET entries == SelectSeq(config.fallbacks, LAMBDA e : e[2] # <<>>)
        existing == {entries[i][1] : i \in 1 .. Len(entries)}
        unlisted == SelectSeq(config.model_list, LAMBDA d : d.model_name \notin existing)
    IN  IF config.default_fallbacks # <<>>
          THEN entries \o [i \in 1 .. Len(unlisted) |->
                              <<unlisted[i].model_name, config.default_fallbacks>>]
          ELSE entries

\* RouterManager._router_kwargs: model list, strategy and fallbacks
RouterKwargs(config, model_list) ==
    LET fallbacks == FormatFallbacks(config)
    IN  [model_list |-> model_list,
         routing_strategy |-> config.routing_strategy,
         fallbacks |-> IF config.default_fallbacks # <<>> /\ fallbacks = <<>>
                         THEN << <<"*", config.default_fallbacks>> >>
                         ELSE fallbacks]

\* a deployment of the list holds a secret reference, which
\* _resolve_model_list awaits the secrets manager for
NeedsSecret(model_list) ==
    \E i \in 1 .. Len(model_list) :
        \E key \in DOMAIN model_list[i].litellm_params :
            model_list[i].litellm_params[key] = EnvRef

\* ------------------------------------------ routing-config manager: state
\* what a call can observe of the manager
Snap(m) ==
    [config |-> m.config, router |-> m.router, persisted |-> m.persisted,
     last_reload_at |-> m.last_reload_at]

NoOp ==
    [kind |-> "none", pc |-> "idle", arg |-> None, new |-> None, current |-> None,
     needs |-> FALSE, exc |-> None, no |-> 0, before |-> None, after |-> None]

\* a call of kind `kind` with argument `arg` that is to install `new_config`
NewOp(kind, arg, new_config) ==
    [NoOp EXCEPT !.kind = kind, !.pc = "lock", !.arg = Some(arg),
                 !.new = Some(new_config), !.no = mgr.calls + 1,
                 !.before = Some(Snap(mgr))]

\* RouterManager.__init__ with the configuration `config`, over an empty repository
ManagerStart(config) ==
    /\ mgr = [config |-> config, router |-> None, last_reload_at |-> None,
              lock |-> None, persisted |-> None, calls |-> 0, kwargs |-> None]
    /\ ops = [t \in Tasks |-> NoOp]

\* RouterSettings() with nothing set in the environment
ManagerInit == ManagerStart(RouterConfig(<<>>, "usage-based-routing-v2", <<>>, <<>>))

\* EventRouter.__init__
RouterInit ==
    /\ rules = <<>>
    /\ routed = None

Init == EngineInit /\ WorkerInit /\ RouterInit /\ ManagerInit /\ normalized = None

\* the worker's engine is built by get_execution_engine with every factory
WorkerSystemInit == Init /\ factories = {"team", "workflow"}


DeleteExecution(id) == DeleteRecord(id) /\ UNCHANGED workerVars /\ UNCHANGED serviceVars

\* the engine used directly, by the callers of run_agent / run_team / run_workflow
EngineNext ==
    \/ \E c \in Callers, kind \in TargetTypes :
         \E target \in TargetIds(kind), input \in {"hi"} :
            StartRun(c, kind, target, input)
    \/ \E c \in Callers : EngineStep(c) /\ UNCHANGED workerVars /\ UNCHANGED serviceVars
    \/ \E id \in DOMAIN records : DeleteExecution(id)

EngineSpec == Init /\ [][EngineNext]_vars

\* the workers of one consumer group on one stream
Next ==
    \/ \E p \in Payloads : Publish(p)
    \/ \E w \in Workers :
          \/ ReadBatch(w)
          \/ BeginMessage(w)
          \/ WorkerEngineStep(w)
          \/ HandleReturned(w)
          \/ HandleRaised(w)
          \/ HandleFailure(w)
          \/ Ack(w)
          \/ LoopExit(w)
          \/ RequestShutdown(w)
          \/ Kill(w)
          \/ Restart(w)
    \/ \E id \in DOMAIN records : DeleteExecution(id)

Spec == WorkerSystemInit /\ [][Next]_vars

\* a step of worker w's process; the event loop keeps running it, and a
\* dead process is started again
WorkerStep(w) ==
    \/ ReadBatch(w)
    \/ BeginMessage(w)
    \/ WorkerEngineStep(w)
    \/ HandleReturned(w)
    \/ HandleRaised(w)
    \/ HandleFailure(w)
    \/ Ack(w)
    \/ LoopExit(w)
    \/ Restart(w)

FairSpec == Spec /\ \A w \in Workers : WF_vars(WorkerStep(w))

\* ------------------------------------------------------------------ router
\* the rules that may be registered, up to their priority: no pattern,
\* a source pattern, source and content patterns, a user pattern, and a
\* source pattern that matches every string
RuleShapes ==
    { [source_pattern |-> "", content_pattern |-> "", user_pattern |-> "",
       target_type |-> "agent", target_id |-> "A2"],
      [source_pattern |-> "web", content_pattern |-> "", user_pattern |-> "",
       target_type |-> "team", target_id |-> "T1"],
      [source_pattern |-> "web", content_pattern |-> "hi", user_pattern |-> "",
       target_type |-> "agent", target_id |-> "A1"],
      [source_pattern |-> "", content_pattern |-> "", user_pattern |-> "U1",
       target_type |-> "workflow", target_id |-> "F1"],
      [source_pattern |-> ".*", content_pattern |-> "", user_pattern |-> "",
       target_type |-> "agent", target_id |-> "A2"] }

\* RoutingRule
RoutingRule(priority, shape) ==
    [priority |-> priority,
     source_pattern |-> shape.source_pattern,
     content_pattern |-> shape.content_pattern,
     user_pattern |-> shape.user_pattern,
     target_type |-> shape.target_type,
     target_id |-> shape.target_id]

RoutingRules == {RoutingRule(p, d) : p \in 0 .. MaxPriority, d \in RuleShapes}

\* AgentRequestEvent as route sees it
RequestEvent(agent_id, user_id, metadata, payload) ==
    [agent_id |-> agent_id, user_id |-> user_id, metadata |-> metadata,
     payload |-> payload]

\* the events handed to route: with a direct agent reference, with no
\* target at all, and with routing hints in metadata / payload
RouteEvents ==
    { RequestEvent("A1", NoValue, ("source" :> Str("web")), ("content" :> Str("hi"))),
      RequestEvent("A1", NoValue, ("team_id" :> Uuid("T1")), NoMap),
      RequestEvent("", NoValue, ("source" :> Str("web")), ("content" :> Str("hi"))),
      RequestEvent("", NoValue, NoMap, ("source" :> Str("web")) @@ ("input_text" :> Str("yo"))),
      RequestEvent("", Uuid("U1"), NoMap, NoMap),
      RequestEvent("", NoValue, ("team_id" :> Uuid("T1")) @@ ("source" :> Str("web")), NoMap),
      RequestEvent("", NoValue, ("team_id" :> Str("T1")),
                   ("workflow_id" :> Uuid("F1")) @@ ("agent_id" :> Uuid("A2"))),
      RequestEvent("", NoValue, ("team_id" :> Str("  ")) @@ ("workflow_id" :> Str(" F1 ")),
                   ("team_id" :> Str("web")) @@ ("source" :> Str("web"))) }

\* what AgentRepository.get_default_route returns
DefaultRoutes == {None, <<"agent", "A1">>}

\* EventRouter.add_routing_rule
AddRoutingRule(rule) ==
    /\ Len(rules) < MaxRules
    /\ rules' = Append(rules, rule)
    /\ UNCHANGED routed
    /\ UNCHANGED <<engineVars, workerVars, managerVars, normalized>>

\* a call of EventRouter.route
RouteEvent(event, fallback) ==
    /\ routed' = Some([event |-> event, rules |-> rules, fallback |-> fallback,
                       outcome |-> Route(event, rules, fallback)])
    /\ UNCHANGED rules
    /\ UNCHANGED <<engineVars, workerVars, managerVars, normalized>>

RouterNext ==
    \/ \E rule \in RoutingRules : AddRoutingRule(rule)
    \/ \E event \in RouteEvents, fallback \in DefaultRoutes : RouteEvent(event, fallback)

\* the router of the worker process
RouterSpec == WorkerSystemInit /\ [][RouterNext]_vars

\* handle_event raises before the engine is called
HandleRaises(c, exc) ==
    /\ call' = [call EXCEPT ![c] = [NoCall EXCEPT !.pc = "raised", !.exc = Some(exc)]]
    /\ UNCHANGED callNo

\* ExecutionEngine.run_from_event up to the call of _run_target
RunFromEvent(c, event) ==
    LET target == ResolveEventTarget(event)
        IsStr(k) == Get(event.payload, k).t = "str"
        \* _extract_input_text
        input_text == IF IsStr("content") THEN event.payload["content"].v
                      ELSE IF IsStr("input_text") THEN event.payload["input_text"].v
                      ELSE IF IsStr("text") THEN event.payload["text"].v
                      ELSE IF IsStr("message") THEN event.payload["message"].v
                      ELSE ""
    IN  IF target = None
        THEN HandleRaises(c, Exc("ValueError", "AgentRequestEvent must define agent_id, team_id, or workflow_id for execution"))
        ELSE BeginRun(c, target[1], target[2], input_text)

\* (mutation) the event is handed to the engine as it came
RoutedEvent_Unchanged(event, target_id) == event

\* handle_event: `routed_event`
RoutedEvent(event, target_id) ==
    IF event.agent_id = target_id THEN event ELSE [event EXCEPT !.agent_id = target_id]

\* EventRouter.handle_event called by c, up to the call of _run_target
HandleEvent(c, event, fallback) ==
    /\ call[c].pc \in {"idle", "returned", "raised"}
    /\ callNo[c] < MaxCalls
    /\ LET outcome == Route(event, rules, fallback)
       IN  /\ routed' = Some([event |-> event, rules |-> rules, fallback |-> fallback,
                              outcome |-> outcome])
           /\ IF ~outcome.ok
              THEN HandleRaises(c, Exc("ValueError", "No routing target available for event"))
              ELSE IF outcome.target[1] # "agent"
              THEN HandleRaises(c, Exc("NotImplementedError", "Routing for target type is not supported"))
              ELSE RunFromEvent(c, RoutedEvent(event, outcome.target[2]))
    /\ UNCHANGED <<rules, records, nextId, factories, made, faults>>
    /\ UNCHANGED <<workerVars, managerVars, normalized>>

\* the order of the rules is RouterSpec's matter: here every rule has
\* priority 0
HandleNext ==
    \/ \E shape \in RuleShapes : AddRoutingRule(RoutingRule(0, shape))
    \/ \E c \in Callers, event \in RouteEvents,
          fallback \in DefaultRoutes \cup {<<"team", "T1">>} :
            HandleEvent(c, event, fallback)
    \* the first step of the run that handle_event started
    \/ \E c \in Callers : CreateExecutionRecord(c) /\ UNCHANGED <<workerVars, serviceVars>>

\* handle_event on unvalidated events, with the engine run cut after the
\* creation of its record (the rest of the run is EngineSpec's)
HandleSpec == WorkerSystemInit /\ [][HandleNext]_vars

\* ---------------------------------------- routing-config manager: actions
\* the call of task t ends: the lock is released, the outcome recorded
End(t, op, pc, exc, m) ==
    /\ mgr' = [m EXCEPT !.lock = None]
    /\ ops' = [ops EXCEPT ![t] = [op EXCEPT !.pc = pc, !.exc = exc,
                                             !.after = Some(Snap(m))]]

\* RouterManager._build_router for call number `no`: the manager it leaves,
\* or the exception it raises
BuildRouter(m, config, no) ==
    IF "guardrails" \in DOMAIN config
      THEN [raised |-> FALSE, exc |-> None,
            mgr |-> [m EXCEPT !.router = Some([id |-> no,
                                                kwargs |-> RouterKwargs(config, config.model_list)]),
                              !.last_reload_at = Some(no)]]
      ELSE [raised |-> TRUE, exc |-> Some(AttributeError("guardrails")), mgr |-> m]

\* _apply_new_config from the rebuild decision to the assignment of _config
Decide(t, op, m) ==
    LET needs == RequiresFullRebuild(m.config, op.new[1])
        seen == [op EXCEPT !.current = Some(Snap(m))]
    IN  IF needs.raised
          THEN End(t, seen, "raised", needs.exc, m)
          ELSE /\ mgr' = [m EXCEPT !.config = op.new[1], !.lock = Some(t)]
               /\ ops' = [ops EXCEPT ![t] = [seen EXCEPT !.pc = "save",
                                                         !.needs = needs.value]]

\* task t holds the lock: initialize looks at the router, _apply_new_config
\* resolves the model list (suspending when a secret is to be fetched)
Locked(t, op, m) ==
    IF op.kind = "initialize"
      THEN IF m.router # None
             THEN End(t, op, "returned", None, m)
             ELSE /\ mgr' = [m EXCEPT !.lock = Some(t)]
                  /\ ops' = [ops EXCEPT ![t] = [op EXCEPT !.pc = "load"]]
      ELSE IF NeedsSecret(op.new[1].model_list)
             THEN /\ mgr' = [m EXCEPT !.lock = Some(t)]
                  /\ ops' = [ops EXCEPT ![t] = [op EXCEPT !.pc = "resolve"]]
             ELSE Decide(t, op, m)

\* task t enters `async with self._lock`: a free lock is taken at once
Call(t, op) ==
    /\ ops[t].pc \in {"idle", "returned", "raised"}
    /\ mgr.calls < MaxOps
    /\ LET m == [mgr EXCEPT !.calls = @ + 1]
       IN  IF m.lock = None
             THEN Locked(t, op, m)
             ELSE /\ mgr' = m
                  /\ ops' = [ops EXCEPT ![t] = op]
    /\ UNCHANGED <<engineVars, workerVars, routerVars, normalized>>

\* RouterManager.initialize
Initialize(t) == Call(t, NewOp("initialize", "none", mgr.config))

\* RouterManager.reload_config
ReloadConfig(t, new_config) == Call(t, NewOp("reload", "none", new_config))

\* RouterManager.add_deployment
AddDeployment(t, deployment) ==
    Call(t, NewOp("add", deployment,
                  [mgr.config EXCEPT !.model_list = Append(@, deployment)]))

\* RouterManager.remove_deployment
RemoveDeployment(t, model_name, deployment_id) ==
    LET arg == <<model_name, deployment_id>>
        remaining == SelectSeq(mgr.config.model_list,
                               LAMBDA d : ~Dropped(d, model_name, deployment_id))
        op == NewOp("remove", arg, [mgr.config EXCEPT !.model_list = remaining])
    IN  IF Removed(mgr.config.model_list, model_name, deployment_id)
          THEN Call(t, op)
          ELSE /\ ops[t].pc \in {"idle", "returned", "raised"}
               /\ mgr.calls < MaxOps
               /\ mgr' = [mgr EXCEPT !.calls = @ + 1]
               /\ ops' = [ops EXCEPT ![t] =
                            [op EXCEPT !.pc = "raised", !.new = None,
                                       !.exc = Some(Exc("ValueError", "Deployment was not found")),
                                       !.after = Some(Snap(mgr))]]
               /\ UNCHANGED <<engineVars, workerVars, routerVars, normalized>>

\* the lock is released and task t, waiting for it, takes it
Acquire(t) ==
    /\ ops[t].pc = "lock"
    /\ mgr.lock = None
    /\ Locked(t, ops[t], mgr)
    /\ UNCHANGED <<engineVars, workerVars, routerVars, normalized>>

\* _resolve_model_list returns
ResolveModelList(t) ==
    /\ ops[t].pc = "resolve"
    /\ Decide(t, ops[t], mgr)
    /\ UNCHANGED <<engineVars, workerVars, routerVars, normalized>>

\* save_config returns; then the router is built, or the model list of the
\* existing router is swapped and the reload stamped
Save(t) ==
    /\ ops[t].pc = "save"
    /\ LET op == ops[t]
           m == [mgr EXCEPT !.persisted = op.new]
           built == BuildRouter(m, op.new[1], op.no)
       IN  IF m.router = None \/ op.needs
             THEN IF built.raised
                    THEN End(t, op, "raised", built.exc, m)
                    ELSE End(t, op, "returned", None, built.mgr)
             ELSE End(t, op, "returned", None,
                      [m EXCEPT !.router = Some([@[1] EXCEPT !.kwargs.model_list =
                                                               op.new[1].model_list]),
                                !.last_reload_at = Some(op.no)])
    /\ UNCHANGED <<engineVars, workerVars, routerVars, normalized>>

\* initialize: load_config returns; the router is built and the config saved
Load(t) ==
    /\ ops[t].pc = "load"
    /\ LET op == ops[t]
           m == IF mgr.persisted # None THEN [mgr EXCEPT !.config = mgr.persisted[1]]
                                        ELSE mgr
           built == BuildRouter(m, m.config, op.no)
       IN  IF built.raised
             THEN End(t, op, "raised", built.exc, m)
             ELSE End(t, op, "returned", None,
                      [built.mgr EXCEPT !.persisted = Some(m.config)])
    /\ UNCHANGED <<engineVars, workerVars, routerVars, normalized>>

\* a call of _router_kwargs with `config` and its model list
BuildKwargs(config) ==
    /\ mgr' = [mgr EXCEPT !.kwargs =
                 Some([config |-> config,
                       kwargs |-> RouterKwargs(config, config.model_list)])]
    /\ UNCHANGED ops
    /\ UNCHANGED <<engineVars, workerVars, routerVars, normalized>>

ManagerNext ==
    \/ \E t \in Tasks :
          \/ Initialize(t)
          \/ \E new_config \in ReloadConfigs : ReloadConfig(t, new_config)
          \/ \E deployment \in {GptD1, GptD2, ClaudeD1, GptPlain} :
                AddDeployment(t, deployment)
          \/ \E model_name \in {"gpt", "claude"}, deployment_id \in {"d1", "d2", "gpt"} :
                RemoveDeployment(t, model_name, deployment_id)
          \/ Acquire(t)
          \/ ResolveModelList(t)
          \/ Save(t)
          \/ Load(t)

\* a manager constructed with any configuration of the model
ManagerSystemInit ==
    /\ EngineInit /\ factories = {"team", "workflow"}
    /\ WorkerInit
    /\ RouterInit
    /\ \E config \in StartConfigs : ManagerStart(config)
    /\ normalized = None

ManagerSpec == ManagerSystemInit /\ [][ManagerNext]_vars

\* the dispatcher arguments computed for every configuration of the model
KwargsSpec == ManagerSystemInit /\ [][\E config \in RouterConfigs : BuildKwargs(config)]_vars

\* ------------------------------------------------- output normalization
\* the maps a runnable returns: each key absent or holding one of the values
MapOutputs ==
    {MapOf(c @@ x @@ m @@ k @@ d) :
        c \in {NoMap, "content" :> Str(""), "content" :> Str("done")},
        x \in {NoMap, "text" :> Str("said")},
        m \in {NoMap, "metadata" :> MapOf(NoMap), "metadata" :> MapOf("model" :> Str("gpt"))},
        k \in {NoMap, "tokens" :> MapOf("total" :> Str("n"))},
        d \in {NoMap, "structured_data" :> MapOf("answer" :> Str("yes"))}}

\* raw outputs of every shape from_value tells apart: strings, maps, None,
\* other objects, and values that are normalized already
RawOutputs ==
    LET plain == MapOutputs \cup {Str(""), Str("done"), NoValue,
                                  [t |-> "bool", v |-> TRUE], [t |-> "bool", v |-> FALSE]}
    IN  plain \cup {FromValue(raw) : raw \in plain}

\* the output `raw` of a runnable is normalized; the normalized value is
\* normalized again
Normalize(raw) ==
    /\ normalized' = Some([raw |-> raw,
                           once |-> FromValue(raw),
                           twice |-> FromValue(FromValue(raw)),
                           payload |-> NormalizeOutput(raw),
                           again |-> NormalizeOutput(FromValue(raw))])
    /\ UNCHANGED <<engineVars, workerVars, routerVars, managerVars>>

NormalizeSpec == WorkerSystemInit /\ [][\E raw \in RawOutputs : Normalize(raw)]_vars

\* ================================================================== claims
\* -------------------------------------------------------- engine (C1 - C3)
RecordsOf(t, n) == {m \in made : m.by = t /\ m.no = n}
CallEnded(t) == call[t].pc \in {"returned", "raised"}
Terminal == {"completed", "failed"}

\* C1: for every run operation whose record creation succeeded, when the
\* call has ended (returned or raised) exactly one execution record exists
\* for that call and its status is COMPLETED or FAILED.
C1_OneTerminalRecord ==
    \A c \in Callers :
        (CallEnded(c) /\ RecordsOf(c, callNo[c]) # {}) =>
            /\ Cardinality(RecordsOf(c, callNo[c])) = 1
            /\ \A m \in RecordsOf(c, callNo[c]) :
                  /\ m.rid \in DOMAIN records
                  /\ records[m.rid].status \in Terminal

\* C2: a record's status only moves PENDING -> RUNNING -> COMPLETED | FAILED:
\* every step of the engine leaves a finished row (finished_at set) as it is,
\* changes a status only along those arrows, inserts rows as PENDING and
\* never writes CANCELLED.
StatusArrows ==
    {<<"pending", "running">>, <<"running", "completed">>, <<"running", "failed">>}

C2_Step ==
    /\ \A id \in DOMAIN records \cap DOMAIN records' :
          /\ records[id].finished_at # None => records'[id] = records[id]
          /\ records'[id].status # records[id].status =>
                <<records[id].status, records'[id].status>> \in StatusArrows
          /\ records'[id].status # "cancelled"
    /\ \A id \in DOMAIN records' \ DOMAIN records : records'[id].status = "pending"

C2_StatusMonotonic == [][C2_Step]_vars

\* C2 witness: one run has reached COMPLETED and another one FAILED
C2_Witness ==
    /\ \E id \in DOMAIN records : records[id].status = "completed"
    /\ \E id \in DOMAIN records : records[id].status = "failed"

\* C3: when the resolver or the runnable raised inside a run operation, the
\* run ends by returning a record with status FAILED whose error_message is
\* the stringified exception.
C3_FailureIsReturned ==
    \A c \in Callers :
        (CallEnded(c) /\ call[c].raised # None) =>
            /\ call[c].pc = "returned"
            /\ call[c].result # None
            /\ call[c].result[1].status = "failed"
            /\ call[c].result[1].error_message = Some(StrExc(call[c].raised[1]))

\* -------------------------------------------------------- worker (C4 - C10)
Msgs == DOMAIN hist
Positions(m) == 1 .. Len(hist[m])
Has(m, ev) == \E p \in Positions(m) : hist[m][p].ev = ev
Count(m, evs) == Cardinality({p \in Positions(m) : hist[m][p].ev \in evs})
AckEvents == {"ack_ok", "ack_failed"}
DlqEvents == {"dlq_ok", "dlq_failed"}
FailureEvents == {"deserialize_failed", "handle_failed"}
AckTried(m) == Count(m, AckEvents) > 0
Started(m) == Has(m, "handle_started") \/ Has(m, "deserialize_failed")
WellFormed(m) == DeserializeEvent(stream[m]).ok

\* the execution rows inserted while message m was handled
RecordsForMsg(m) ==
    {x \in made : \E p \in Positions(m) :
        hist[m][p].ev = "handle_started" /\ hist[m][p].w = x.by /\ hist[m][p].no = x.no}
ResponsesFor(m) == {r \in responses : r.message = m}
DlqEntriesFor(m) == {i \in 1 .. Len(dlq) : dlq[i].message_id = m}

\* the errors the persistence layer raises out of a run operation
PersistenceErrors == {StrExc(DbError), "Execution not found"}

ResponseTiedTo(r, m) ==
    /\ r.execution.row.status \in Terminal
    /\ r.execution.row.agent_id = Some(DeserializeEvent(stream[m]).event.agent_id)
    /\ \E x \in RecordsForMsg(m) : x.rid = r.execution.rid

\* C4 (as claimed): every well-formed message naming an agent, once handled,
\* has exactly one response event (execution COMPLETED or FAILED, tied to
\* the agent), exactly one execution record, one acknowledgement and no
\* dead-letter entry.
C4_OneResponsePerRequest ==
    \A m \in Msgs :
        (WellFormed(m) /\ AckTried(m)) =>
            /\ Cardinality(ResponsesFor(m)) = 1
            /\ \A r \in ResponsesFor(m) : ResponseTiedTo(r, m)
            /\ Cardinality(RecordsForMsg(m)) = 1
            /\ Count(m, AckEvents) = 1
            /\ DlqEntriesFor(m) = {}
            /\ Count(m, DlqEvents) = 0

\* C4 (amended): a well-formed message gets at most one execution record,
\* one response and one acknowledgement; when handle_event returned it has
\* exactly one response (COMPLETED or FAILED, tied to the agent and to the
\* one record) and nothing is dead-lettered, which is the path of a failing
\* runnable too; handle_event raises only on a persistence error, and then
\* there is no response and the message takes the dead-letter path.
C4_ResponseOrDeadLetter ==
    \A m \in Msgs :
        WellFormed(m) =>
            /\ Cardinality(RecordsForMsg(m)) <= 1
            /\ Cardinality(ResponsesFor(m)) <= 1
            /\ Count(m, AckEvents) <= 1
            /\ ~Has(m, "deserialize_failed")
            /\ \A p \in Positions(m) :
                  hist[m][p].ev = "handle_failed" => hist[m][p].err \in PersistenceErrors
            /\ Has(m, "handle_ok") =>
                  /\ Cardinality(ResponsesFor(m)) = 1
                  /\ \A r \in ResponsesFor(m) : ResponseTiedTo(r, m)
                  /\ Cardinality(RecordsForMsg(m)) = 1
                  /\ Count(m, DlqEvents) = 0
                  /\ DlqEntriesFor(m) = {}
            /\ Has(m, "handle_failed") => ResponsesFor(m) = {}
            /\ (AckTried(m) /\ ~Has(m, "handle_ok")) =>
                  /\ Has(m, "handle_failed")
                  /\ Count(m, DlqEvents) = 1

\* C4 witness: a runnable failed, the response carries FAILED and the message
\* was acknowledged on the normal path; and another message was answered with
\* a COMPLETED execution of the agent it named
C4_Witness ==
    /\ \E m \in Msgs :
          /\ WellFormed(m) /\ Has(m, "handle_ok") /\ Has(m, "ack_ok")
          /\ \E r \in ResponsesFor(m) : r.execution.row.status = "failed"
    /\ \E m \in Msgs :
          /\ WellFormed(m) /\ Has(m, "ack_ok")
          /\ \E r \in ResponsesFor(m) :
                /\ r.execution.row.status = "completed"
                /\ r.execution.row.agent_id = Some("A1")

\* C5: a message whose deserialization failed gets, by the time its handling
\* is over, exactly one dead-letter entry, no execution record and an
\* acknowledgement, and the worker goes on.
C5_DeserializeFailureDeadLettered ==
    \A m \in Msgs :
        (Has(m, "deserialize_failed") /\ (AckTried(m) \/ Has(m, "failure_raised"))) =>
            /\ Cardinality(DlqEntriesFor(m)) = 1
            /\ RecordsForMsg(m) = {}
            /\ AckTried(m)
            /\ ~Has(m, "failure_raised")

\* C6: an acknowledgement is issued only after the handling attempt of the
\* message has ended and, when that attempt or the deserialization failed,
\* after the dead-letter publish attempt; an entry leaves the pending list
\* only by such an acknowledgement.
C6_AckLast ==
    /\ \A m \in Msgs : \A p \in Positions(m) :
          hist[m][p].ev \in AckEvents =>
             /\ \E q \in 1 .. p - 1 :
                   hist[m][q].ev \in FailureEvents \cup {"handle_ok"}
             /\ \A q \in 1 .. p - 1 :
                   hist[m][q].ev \in FailureEvents =>
                      \E r \in q + 1 .. p - 1 : hist[m][r].ev \in DlqEvents
    /\ \A m \in Msgs : (Has(m, "delivered") /\ m \notin pel) => Has(m, "ack_ok")
    /\ \A w \in Workers : wk[w].pc = "ack" => call[w].pc = "idle"

\* C6 witness: a handler failure that was dead-lettered and acknowledged
C6_Witness ==
    \E m \in Msgs : Has(m, "handle_failed") /\ Has(m, "dlq_ok") /\ Has(m, "ack_ok")

\* C7: when the dead-letter publish of a failed message fails, nothing is
\* raised out of the handling of the message: the next thing done with the
\* message is its acknowledgement, and the worker then goes on with the
\* next message of the batch (unless its process is killed at that point).
C7_DlqFailureStillAcks ==
    /\ \A m \in Msgs : \A p \in Positions(m) :
          hist[m][p].ev = "dlq_failed" =>
             IF p < Len(hist[m])
             THEN hist[m][p + 1].ev \in AckEvents \cup {"killed"}
             ELSE \E w \in Workers : wk[w].pc = "ack" /\ Current(w) = m
    /\ \A b \in batches : \A i \in 1 .. Len(b) - 1 :
          (Has(b[i], "dlq_failed") /\ AckTried(b[i])) =>
             \/ Started(b[i + 1])
             \/ Has(b[i + 1], "killed")
             \/ \E w \in Workers :
                   wk[w].batch = b /\ wk[w].idx = i + 1 /\ wk[w].pc = "msg"

\* C7 witness: the publish failed, the message was acknowledged and the next
\* message of the batch was taken up
C7_Witness ==
    \E b \in batches : \E i \in 1 .. Len(b) - 1 :
        Has(b[i], "dlq_failed") /\ Has(b[i], "ack_ok") /\ Started(b[i + 1])

\* the dead-letter entry a failed message must have
FailureText(m) ==
    LET p == CHOOSE q \in Positions(m) : hist[m][q].ev \in FailureEvents
    IN  hist[m][p].err

HasDlqEntry(m) ==
    \E i \in 1 .. Len(dlq) :
        /\ dlq[i].message_id = m
        /\ dlq[i].stream = StreamKey
        /\ dlq[i].error = FailureText(m)
        /\ dlq[i].payload = JsonDumps(DecodeFields(stream[m]))

\* C8 (as claimed): every message acknowledged without handle_event having
\* succeeded has an entry in the dead-letter stream with its id, the stream
\* name, the error text and the decoded payload.
C8_NeverDropped ==
    \A m \in Msgs : (AckTried(m) /\ ~Has(m, "handle_ok")) => HasDlqEntry(m)

\* C8 (amended): ... has exactly one such entry unless the dead-letter
\* publish itself failed; then the failure is logged only and the message
\* is acknowledged with no entry.
C8_DeadLetteredUnlessPublishFailed ==
    \A m \in Msgs :
        (AckTried(m) /\ ~Has(m, "handle_ok")) =>
            IF Has(m, "dlq_failed")
            THEN DlqEntriesFor(m) = {}
            ELSE HasDlqEntry(m) /\ Cardinality(DlqEntriesFor(m)) = 1

\* C8 witness: a handler failure and a deserialization failure, both
\* acknowledged with their entry in the dead-letter stream
C8_Witness ==
    /\ \E m \in Msgs : Has(m, "handle_failed") /\ AckTried(m) /\ HasDlqEntry(m)
    /\ \E m \in Msgs : Has(m, "deserialize_failed") /\ AckTried(m) /\ HasDlqEntry(m)

\* C9: a message whose execution was committed and whose acknowledgement
\* did not take effect (the worker died before it, or xack failed) is
\* delivered again, as long as a worker of the group runs.
Orphaned(m) ==
    /\ m \in Msgs
    /\ m \in pel
    /\ Has(m, "handle_ok")
    /\ hist[m][Len(hist[m])].ev \in {"ack_failed", "killed"}

Redelivered(m) == m \in Msgs /\ Count(m, {"delivered"}) >= 2

AllStopped == \A w \in Workers : wk[w].pc = "stopped"

C9_Redelivery ==
    \A m \in 1 .. MaxMsgs : [](Orphaned(m) => <>(Redelivered(m) \/ AllStopped))

\* C10: the messages of a batch are handled one after another in batch
\* order: a message is taken up only when every earlier message of the batch
\* has had its acknowledgement issued, so acknowledgements follow the batch
\* order and at most one message of a batch is in handling.
C10_Sequential ==
    /\ \A b \in batches : \A i, j \in 1 .. Len(b) :
          i < j =>
             /\ Started(b[j]) => AckTried(b[i])
             /\ AckTried(b[j]) => AckTried(b[i])
    /\ \A b \in batches :
          Cardinality({i \in 1 .. Len(b) : Started(b[i]) /\ ~AckTried(b[i])}) <= 1

\* C10 witness: a batch of two messages, both acknowledged
C10_Witness ==
    \E b \in batches : Len(b) >= 2 /\ \A i \in 1 .. Len(b) : Has(b[i], "ack_ok")

\* ------------------------------------------------------ shutdown (C11)
RunEnded(w) == wk[w].pc \in {"stopped", "crashed"}

\* the messages of the fetched batches that run() had to handle: all but
\* those cut off by the death of the process
CutOff(b, i) == \E j \in 1 .. i : Has(b[j], "killed")

\* C11: when run() has ended after request_shutdown, the Redis client is
\* closed and every message of a batch that was fetched has been handled
\* and its acknowledgement issued.
C11_DrainedOnExit ==
    \A w \in Workers :
        (stop[w] /\ RunEnded(w)) =>
            /\ wk[w].redis = "closed"
            /\ \A b \in batches : \A i \in 1 .. Len(b) :
                  AckTried(b[i]) \/ CutOff(b, i)

\* C11, the part that holds: after request_shutdown, run() ends (or the
\* process is dead)
C11_ShutdownEnds ==
    \A w \in Workers : [](stop[w] => <>(RunEnded(w) \/ wk[w].pc = "killed" \/ ~stop[w]))

\* ------------------------------------------------------ routing (C12, C13)
HasRouted == routed # None
LastRoute == routed[1]
Matching(event, rls) == {i \in 1 .. Len(rls) : Matches(rls[i], event)}

\* C12: for an event with a direct agent reference, whatever rules are
\* registered, route returns (agent, that id) and consults neither a rule
\* nor the default-route lookup.
C12_ExplicitAgentWins ==
    (HasRouted /\ LastRoute.event.agent_id # "") =>
        /\ LastRoute.outcome.ok
        /\ LastRoute.outcome.target = <<"agent", LastRoute.event.agent_id>>
        /\ LastRoute.outcome.consulted = 0
        /\ ~LastRoute.outcome.lookup

\* C12 witness: an event naming agent A1 was routed while a rule that
\* matches it, with another target, was registered
C12_Witness ==
    /\ HasRouted
    /\ LastRoute.event.agent_id = "A1"
    /\ \E i \in Matching(LastRoute.event, LastRoute.rules) :
          LastRoute.rules[i].target_id # "A1"

\* C13: for an event with no explicit target, the rule route selects is a
\* matching rule of the highest priority among the matching rules, the one
\* registered first among those; no rule is selected when none matches;
\* and changing only the priority of a rule that does not match changes
\* neither the selected rule nor the returned target.
C13_HighestPriorityMatch ==
    (HasRouted /\ ExtractExplicitTarget(LastRoute.event) = None) =>
        LET e == LastRoute.event
            rls == LastRoute.rules
            out == LastRoute.outcome
            hits == Matching(e, rls)
        IN  /\ hits = {} => out.rule = 0
            /\ hits # {} =>
                  /\ out.ok
                  /\ out.rule \in hits
                  /\ out.target = <<rls[out.rule].target_type, rls[out.rule].target_id>>
                  /\ \A j \in hits :
                        \/ rls[j].priority < rls[out.rule].priority
                        \/ rls[j].priority = rls[out.rule].priority /\ out.rule <= j
            /\ \A i \in (1 .. Len(rls)) \ hits : \A p \in 0 .. MaxPriority :
                  LET other == Route(e, [rls EXCEPT ![i].priority = p], LastRoute.fallback)
                  IN  /\ other.ok = out.ok
                      /\ other.rule = out.rule
                      /\ other.target = out.target

\* C13 witness: two matching rules of equal priority with different targets
\* are registered, the second one without a pattern, and the one registered
\* first was selected
C13_Witness ==
    /\ HasRouted
    /\ ExtractExplicitTarget(LastRoute.event) = None
    /\ Len(LastRoute.rules) = 2
    /\ Matching(LastRoute.event, LastRoute.rules) = {1, 2}
    /\ LastRoute.rules[1].priority = LastRoute.rules[2].priority
    /\ LastRoute.rules[1].target_id # LastRoute.rules[2].target_id
    /\ LastRoute.rules[1].source_pattern = "web"
    /\ LastRoute.rules[2].source_pattern = ""
    /\ LastRoute.outcome.rule = 1

\* ---------------------------------- routing-config manager (C14 - C19)
Replaces == {"reload", "add", "remove"}
CallDone(t) == ops[t].pc \in {"returned", "raised"}

\* the replace of task t reached the rebuild decision
Decided(t) == ops[t].kind \in Replaces /\ CallDone(t) /\ ops[t].current # None

\* the new configuration of task t differs from the one it replaced in a
\* field other than the deployment list
Structural(t) ==
    \E f \in DOMAIN ops[t].new[1] \ {"model_list"} :
        ops[t].current[1].config[f] # ops[t].new[1][f]

\* C14: a replace that changes only the deployment list keeps the
\* dispatcher instance it found, and a replace that changes a structural
\* field (the routing strategy among them) installs a new instance.
C14_RebuildOrSwap ==
    \A t \in Tasks :
        Decided(t) =>
            /\ ops[t].pc = "returned"
            /\ ops[t].after[1].router # None
            /\ IF Structural(t) \/ ops[t].current[1].router = None
                 THEN ops[t].after[1].router[1].id = ops[t].no
                 ELSE ops[t].after[1].router[1].id = ops[t].current[1].router[1].id

\* the identifiers a deployment carries
IdsOf(d) ==
    {Get(d.litellm_params, "deployment_id"), Get(d.litellm_params, "id"),
     Get(d.model_info, "id")} \ {NoValue}

\* the positions of `model_list` that hold model `arg[1]` with identifier `arg[2]`
Hits(model_list, arg) ==
    {i \in 1 .. Len(model_list) :
        model_list[i].model_name = arg[1] /\ Str(arg[2]) \in IdsOf(model_list[i])}

RemoveDone(t) == ops[t].kind = "remove" /\ CallDone(t)

\* C15: a remove_deployment(model, id) that matches no deployment of the
\* list fails with the not-found error and changes nothing: the list, the
\* dispatcher, the persisted configuration and the last-reload time are as
\* they were when it was called.
C15_RemoveNotFound ==
    \A t \in Tasks :
        (RemoveDone(t) /\ Hits(ops[t].before[1].config.model_list, ops[t].arg[1]) = {}) =>
            /\ ops[t].pc = "raised"
            /\ ops[t].exc[1].cls = "ValueError"
            /\ ops[t].after = ops[t].before

\* a remove of ("claude", "d1") from a list that holds gpt/d1 was refused
C15_Witness ==
    \E t \in Tasks :
        /\ RemoveDone(t)
        /\ ops[t].arg[1] = <<"claude", "d1">>
        /\ ops[t].before[1].config.model_list = <<GptD1, GptD2>>
        /\ ops[t].exc[1].cls = "ValueError"
        /\ mgr.config.model_list = <<GptD1, GptD2>>

\* `model_list` without the positions in `hits`, the rest in order
Without(model_list, hits) ==
    LET F[i \in 0 .. Len(model_list)] ==
            IF i = 0 THEN <<>>
            ELSE IF i \in hits THEN F[i - 1] ELSE Append(F[i - 1], model_list[i])
    IN  F[Len(model_list)]

\* C16: a remove_deployment(model, id) that matches a deployment succeeds
\* and leaves the list without exactly the deployments of that model name
\* and identifier, the others in their order (gpt d1, d2 without
\* ("gpt", "d1") is d2 alone).
C16_RemoveExactly ==
    \A t \in Tasks :
        LET before == ops[t].before[1].config.model_list
        IN  (RemoveDone(t) /\ Hits(before, ops[t].arg[1]) # {}) =>
                /\ ops[t].pc = "returned"
                /\ ops[t].after[1].config.model_list =
                      Without(before, Hits(before, ops[t].arg[1]))

\* the positions of the fallback list `fallbacks` keyed by `name`
EntriesFor(fallbacks, name) == {i \in 1 .. Len(fallbacks) : fallbacks[i][1] = name}

\* C17: in the fallback list built for the dispatcher every model name is
\* the key of at most one entry, also when several deployments share a
\* model name; an explicit entry is kept, and with a non-empty default list
\* a model without an explicit entry gets exactly one default entry.
C17_OneFallbackEntry ==
    mgr.kwargs # None =>
        LET config == mgr.kwargs[1].config
            built == mgr.kwargs[1].kwargs.fallbacks
            explicit == {config.fallbacks[i] : i \in 1 .. Len(config.fallbacks)}
            names == {config.model_list[i].model_name : i \in 1 .. Len(config.model_list)}
        IN  /\ \A i \in 1 .. Len(built) : Cardinality(EntriesFor(built, built[i][1])) = 1
            /\ \A e \in explicit : e[2] # <<>> => \E i \in 1 .. Len(built) : built[i] = e
            /\ config.default_fallbacks # <<>> =>
                  \A name \in names :
                     (\A e \in explicit : e[1] # name) =>
                        /\ Cardinality(EntriesFor(built, name)) = 1
                        /\ \A i \in EntriesFor(built, name) :
                              built[i][2] = config.default_fallbacks

\* the list an add or remove call `op` leaves when it runs alone on `model_list`
Applied(model_list, op) ==
    IF op.kind = "add" THEN Append(model_list, op.arg[1])
    ELSE Without(model_list, Hits(model_list, op.arg[1]))

\* C18: add and remove are serialized as whole read-modify-replace
\* operations: when two concurrent add / remove calls have ended, the list
\* is the one that running them one after the other, in one of the two
\* orders, would leave (two concurrent adds are both in the list).
C18_Serializable ==
    \A t, u \in Tasks :
        (/\ ops[t].no = 1 /\ ops[u].no = 2 /\ mgr.calls = 2
         /\ ops[t].kind \in {"add", "remove"} /\ ops[u].kind \in {"add", "remove"}
         /\ CallDone(t) /\ CallDone(u)) =>
            LET start == ops[t].before[1].config.model_list
            IN  mgr.config.model_list \in
                   {Applied(Applied(start, ops[t]), ops[u]),
                    Applied(Applied(start, ops[u]), ops[t])}

C20_NormalizeIdempotent ==
    normalized # None =>
        /\ normalized[1].twice = normalized[1].once
        /\ normalized[1].again = normalized[1].payload
        /\ normalized[1].raw.t = "output" => normalized[1].once = normalized[1].raw

\* a map whose empty content gave way to its text was normalized
C20_Witness ==
    /\ normalized # None
    /\ normalized[1].raw.t = "map"
    /\ Get(normalized[1].raw.v, "content") = Str("")
    /\ normalized[1].once.v.content = Str("said")
    /\ normalized[1].twice.v.content = Str("said")

\* ----------------------------------------------- engine, again (C21 - C26)
\* the row of the run of thread t is gone
RowGone(t) == call[t].rid # 0 /\ call[t].rid \notin DOMAIN records

\* C21: when the execution record is absent at the RUNNING update or at the
\* terminal update (deleted after its creation), the update does nothing
\* and the run operation does not raise: the run ends without an exception
\* reaching its caller (a persistence error apart).
C21_MissingRecordNoRaise ==
    \A t \in Threads :
        (CallEnded(t) /\ RowGone(t)) =>
            \/ call[t].pc = "returned"
            \/ call[t].exc = Some(DbError)

\* handle_event failed for message m with the persistence error and no row
\* was inserted for it: _create_execution_record failed
CreationFailed(m) ==
    /\ RecordsForMsg(m) = {}
    /\ \E p \in Positions(m) :
          hist[m][p].ev = "handle_failed" /\ hist[m][p].err = StrExc(DbError)

C22_State ==
    /\ \A t \in Threads :
          call[t].rid = 0 =>
             /\ call[t].pc \in {"idle", "create", "raised"}
             /\ call[t].output = None /\ call[t].raised = None /\ call[t].error = None
    /\ \A m \in Msgs :
          CreationFailed(m) =>
             /\ ResponsesFor(m) = {}
             /\ ~Has(m, "handle_ok")
             /\ \/ AckTried(m)
                \/ Has(m, "killed")
                \/ \E w \in Workers : wk[w].pc \in {"fail", "ack"} /\ Current(w) = m
             /\ AckTried(m) =>
                   /\ Count(m, DlqEvents) = 1
                   /\ Has(m, "dlq_ok") => HasDlqEntry(m)

C22_Step ==
    \A t \in Threads :
        (call[t].pc = "create" /\ call'[t].pc = "raised") =>
            /\ call'[t].exc = Some(DbError)
            /\ call'[t].rid = 0
            /\ records' = records /\ made' = made

Unsupported == Exc("NotImplementedError", "Routing for target type is not supported")

\* the last handle_event resolved a target of a kind other than agent
RoutedElsewhere ==
    HasRouted /\ LastRoute.outcome.ok /\ LastRoute.outcome.target[1] # "agent"

\* the last handle_event resolved an agent that is not the event's agent_id
RoutedToOtherAgent ==
    /\ HasRouted /\ LastRoute.outcome.ok
    /\ LastRoute.outcome.target[1] = "agent"
    /\ LastRoute.outcome.target[2] # LastRoute.event.agent_id

C23_State ==
    \A c \in Callers :
        /\ RoutedElsewhere =>
              /\ call[c].pc = "raised" /\ call[c].exc = Some(Unsupported)
              /\ call[c].rid = 0
        /\ RoutedToOtherAgent =>
              /\ call[c].pc \in {"create", "mark", "raised"}
              /\ call[c].kind = "agent"
              /\ call[c].target = LastRoute.outcome.target[2]
              /\ call[c].pc = "raised" => call[c].exc = Some(DbError)
              /\ call[c].rid # 0 =>
                    /\ records[call[c].rid].target_type = "agent"
                    /\ records[call[c].rid].agent_id = Some(LastRoute.outcome.target[2])

\* C23: handle_event raises the unsupported-target error whenever route
\* resolves a team or a workflow (explicitly, by rule or by default route),
\* and that call neither calls the engine nor creates an execution record;
\* when route resolves an agent other than the event's own agent_id, the
\* engine runs, and records, the routed agent id.
C23_UnsupportedOrRouted ==
    [][ /\ C23_State'
        /\ (routed' # routed /\ RoutedElsewhere') =>
              (records' = records /\ made' = made /\ callNo' = callNo) ]_vars

\* C23 witness: the default route resolved a team and handle_event raised,
\* after an event with no agent_id had been routed by a rule to the engine
C23_Witness ==
    /\ RoutedElsewhere
    /\ LastRoute.outcome.lookup
    /\ \E c \in Callers : callNo[c] > 0 /\ call[c].exc = Some(Unsupported)

\* ------------------------------------------- the two target lookups (C24)
\* what the explicit-target step of the last route call returned
ExplicitStep ==
    IF LastRoute.outcome.ok /\ LastRoute.outcome.rule = 0 /\ ~LastRoute.outcome.lookup
    THEN LastRoute.outcome.target
    ELSE None

\* C24: for every event without a direct agent reference, the
\* explicit-target step of EventRouter.route and
\* ExecutionEngine._resolve_event_target resolve the same (kind, id), the
\* first of team_id, workflow_id, agent_id (metadata, then payload) whose
\* value is a UUID or a UUID-formatted string.
C24_SameTarget ==
    (HasRouted /\ LastRoute.event.agent_id = "") =>
        ExplicitStep = ResolveEventTarget(LastRoute.event)

\* ---------------------------------------------- terminal rows, again (C25)
C25_State ==
    \A id \in DOMAIN records :
        /\ records[id].status = "completed" =>
              records[id].output_payload # None /\ records[id].error_message = None
        /\ records[id].status = "failed" =>
              records[id].error_message # None /\ records[id].output_payload = None
        /\ records[id].status \in {"pending", "running"} => records[id].duration_ms = None
        /\ records[id].status \in Terminal => records[id].duration_ms # None

C25_Step ==
    \A id \in DOMAIN records \cap DOMAIN records' :
        records'[id].duration_ms # records[id].duration_ms =>
            /\ records[id].duration_ms = None
            /\ records[id].status \notin Terminal
            /\ records'[id].status \in Terminal

\* C25: in every terminal record output_payload and error_message exclude
\* each other (COMPLETED: output set, error null; FAILED: error set, no
\* output); duration_ms is null in PENDING and RUNNING and is written once,
\* by the update that moves the record to its terminal status.
C25_OutputXorError == [][C25_Step /\ C25_State']_vars

\* C25 witness: a FAILED record with its error and duration and no output,
\* next to a RUNNING record that has no duration yet
C25_Witness ==
    /\ \E id \in DOMAIN records :
          /\ records[id].status = "failed"
          /\ records[id].error_message # None /\ records[id].duration_ms # None
    /\ \E id \in DOMAIN records :
          records[id].status = "running" /\ records[id].duration_ms = None

\* ------------------------------------------------------- streaming (C26)
\* the payload _normalize_output makes of a raw value
PayloadOf(raw) == Some(NormalizeOutput(raw)[1])

\* the try block ran the runnable that the resolver returned
C26_Invoke ==
    \A t \in Threads :
        (call[t].pc = "invoke" /\ call'[t].pc = "update" /\ call[t].stream) =>
            LET agent == call[t].runnable
                chunks == agent.arun_stream[1].chunks
            IN  IF agent.arun_stream = None
                THEN IF agent.arun.ok
                     THEN call'[t].output = PayloadOf(agent.arun.raw) /\ call'[t].error = None
                     ELSE call'[t].output = None /\ call'[t].error = Some(StrExc(agent.arun.exc))
                ELSE agent.arun_stream[1].aiter =>
                     IF agent.arun_stream[1].end.ok
                     THEN /\ call'[t].error = None
                          /\ call'[t].output = IF chunks = <<>> THEN PayloadOf(NoValue)
                                               ELSE PayloadOf(chunks[Len(chunks)])
                     ELSE /\ call'[t].output = None
                          /\ call'[t].error = Some(StrExc(agent.arun_stream[1].end.exc))

\* the terminal update persists what the try block left
C26_Update ==
    \A t \in Threads :
        (call[t].pc = "update" /\ call'[t].pc = "fetch" /\ call[t].rid \in DOMAIN records) =>
            IF call[t].error = None
            THEN /\ records'[call[t].rid].status = "completed"
                 /\ records'[call[t].rid].output_payload = call[t].output
            ELSE /\ records'[call[t].rid].status = "failed"
                 /\ records'[call[t].rid].output_payload = None

\* C26: with streaming requested and a runnable that has the streaming
\* operation, the persisted output is the normalization of the last chunk
\* only: of null, with status COMPLETED, for an empty stream; a stream
\* that raises ends the run FAILED with no output.  A runnable without the
\* streaming operation is run by the one-shot call.
C26_LastChunkOnly == [][C26_Invoke /\ C26_Update]_vars

\* C26 witness: one run persisted the last chunk of a stream, another one
\* the normalization of null for an empty stream
C26_Witness ==
    /\ \E id \in DOMAIN records :
          /\ records[id].status = "completed"
          /\ records[id].output_payload = PayloadOf(Str("last"))
    /\ \E id \in DOMAIN records :
          /\ records[id].status = "completed"
          /\ records[id].output_payload = PayloadOf(NoValue)

\* --------------------------------------------- identity for removal (C27)
\* the identity of a deployment: its ids, or its model name when it has none
IdentityOf(d) == IF IdsOf(d) = {} THEN {Str(d.model_name)} ELSE IdsOf(d)

NotFound(t) == ops[t].pc = "raised" /\ ops[t].exc[1].cls = "ValueError"

\* the list remove_deployment was called on holds a deployment of the model
\* with the identity asked for
Identified(t) ==
    \E i \in 1 .. Len(ops[t].before[1].config.model_list) :
        LET d == ops[t].before[1].config.model_list[i]
        IN  d.model_name = ops[t].arg[1][1] /\ Str(ops[t].arg[1][2]) \in IdentityOf(d)

\* C27: remove_deployment identifies a deployment by the id in its
\* parameters (deployment_id, id) or in model_info, and by its model name
\* when it carries no id: a remove that names such a deployment of the
\* list is not refused as not found.
C27_IdentityFallsBack ==
    \A t \in Tasks : (RemoveDone(t) /\ Identified(t)) => ~NotFound(t)

\* --------------------------------------------- lazy first-time build (C28)
InitializeDone(t) == ops[t].kind = "initialize" /\ CallDone(t)

\* the initialize call of task t went through the build branch: it raised
\* from it, or installed the dispatcher numbered after the call
RanBuild(t) ==
    /\ InitializeDone(t)
    /\ \/ ops[t].pc = "raised"
       \/ ops[t].after[1].router # None /\ ops[t].after[1].router[1].id = ops[t].no

C28_State ==
    /\ Cardinality({t \in Tasks : RanBuild(t)}) <= 1
    /\ \A t \in Tasks :
          (InitializeDone(t) /\ ~RanBuild(t)) =>
              /\ ops[t].pc = "returned"
              /\ ops[t].after[1].router # None
              /\ ops[t].after[1].router[1].id # ops[t].no

ReplaceFailed(t) == Decided(t) /\ ops[t].pc = "raised"

\* C29: a replace that raises while it persists, builds or swaps leaves the
\* in-memory configuration, the persisted configuration and the dispatcher
\* as it found them, and releases the lock.
C29_AllOrNothing ==
    \A t \in Tasks :
        /\ ReplaceFailed(t) =>
              /\ ops[t].after[1].config = ops[t].current[1].config
              /\ ops[t].after[1].persisted = ops[t].current[1].persisted
              /\ ops[t].after[1].router = ops[t].current[1].router
        /\ CallDone(t) => mgr.lock # Some(t)

\* ------------------------------------------- isolation in a batch (C30)
\* handling message m failed, and what run() does about it is over
FailedAndOver(m) ==
    /\ \E p \in Positions(m) : hist[m][p].ev \in FailureEvents
    /\ AckTried(m) \/ Has(m, "failure_raised")

\* C30: whatever was raised while a message of a batch was handled
\* (deserialization, routing, execution, dead-letter publish), the message
\* is acknowledged, every later message of the batch is taken up, and run()
\* goes on: the failure never leaves the loop.
C30_FailureIsolated ==
    /\ \A w \in Workers : wk[w].pc # "crashed"
    /\ \A b \in batches : \A i \in 1 .. Len(b) :
          FailedAndOver(b[i]) =>
             /\ AckTried(b[i])
             /\ i < Len(b) =>
                   \/ Started(b[i + 1])
                   \/ Has(b[i + 1], "killed")
                   \/ \E w \in Workers :
                         wk[w].batch = b /\ wk[w].idx = i + 1 /\ wk[w].pc = "msg"

=============================================================================
